---- MODULE Spec2Model ----
(***************************************************************************)
(* Model of the collection engine of the agent, class checks of           *)
(* src/checks/__init__.py: the cycle doChecks (probes, payload assembly,   *)
(* hostname, event checks, resource checks, delivery, re-arm), the plugin  *)
(* loader getPlugins, and the scheduler that runs the queued cycles.       *)
(*                                                                         *)
(* Probe results are abstract values:                                      *)
(*   "Data"      a well-formed mapping (every key the code reads exists)   *)
(*   "DataNoSBM" MySQL mapping whose secondsBehindMaster is None           *)
(*   "Empty"     an empty mapping {}                                       *)
(*   "False"     the Python value False                                    *)
(*   "None"      the Python value None                                     *)
(*   "Raise"     the call raised (no value; recorded for the properties)   *)
(***************************************************************************)
EXTENDS Integers, Sequences, FiniteSets, TLC

(* ------------------------------ bounds --------------------------------- *)

\* Number of doChecks calls (of getPlugins calls when it is called alone).
MaxCycles == 3

\* Over one run, at most this many answers of the environment differ from
\* the usual one (service not installed, core probe works, hostname resolves,
\* delivery succeeds, ...).
MaxOdd == 1

\* Longest duration of one cycle, in seconds.
MaxDur == 2

\* agentConfig['checkFreq'], seconds between the re-arm and the next cycle.
CheckFreq == 1

(* --------------------------- program constants -------------------------- *)

\* The order in which doChecks calls the probes.
Probes ==
  << "apache", "disk", "load", "memory", "mysql", "network", "nginx",
     "processes", "rabbitmq", "mongodb", "couchdb", "plugins", "io", "cpu",
     "ganglia", "datadog", "cassandra" >>

ProbeSet == { Probes[n] : n \in 1..Len(Probes) }

\* Probes whose result is copied or subscripted without a presence test.
CoreProbes == { "disk", "load", "memory", "network", "processes" }

OptionalProbes == ProbeSet \ CoreProbes

\* self._event_checks = [Hudson(), Nagios(...)], by their key.
EventChecks == << "hudson", "nagios" >>

\* self._resources_checks = [ResProcesses(...)], by RESOURCE_KEY.
ResourcesChecks == << "processes" >>

\* sys.platform values that select the three branches of the OS test.
Platforms == { "darwin", "freebsd8", "linux2" }

\* Facts the caller may hand to the first call.
SystemFacts == { "facts" }

\* Files of the plugin directory, in os.walk order.
FileBases == << "alpha", "beta" >>

\* What a plugin class does when called with 3, 2 and 0 arguments: "ok", or
\* the exception raised. "TypeError" is the TypeError of a call with the
\* wrong number of arguments, "BodyTypeError" a TypeError raised inside a
\* constructor that accepts the arguments, "Error" any other exception.
Args3 == [a3 |-> "ok", a2 |-> "TypeError", a0 |-> "TypeError"]
Args2 == [a3 |-> "TypeError", a2 |-> "ok", a0 |-> "TypeError"]
Args0 == [a3 |-> "TypeError", a2 |-> "TypeError", a0 |-> "ok"]
CtorRaises == [a3 |-> "Error", a2 |-> "ok", a0 |-> "ok"]
NoCtor == [a3 |-> "TypeError", a2 |-> "TypeError", a0 |-> "TypeError"]
Defaulted == [a3 |-> "BodyTypeError", a2 |-> "ok", a0 |-> "ok"]

PluginClasses == { Args3, Args2, Args0, CtorRaises, NoCtor, Defaulted }

\* A directory entry: its name split at the first dot, whether importing it
\* raises, and the class it defines.
FileKinds ==
  [ ext : {"py"}, imp : {"ok"}, cls : PluginClasses ]
  \cup [ ext : {"py"}, imp : {"raise"}, cls : {Args3} ]
  \cup [ ext : {"pyc", ""}, imp : {"ok"}, cls : {Args3} ]

UsualFile == [ext |-> "py", imp |-> "ok", cls |-> Args3]

(* ------------------------------- state --------------------------------- *)

VARIABLES
  pc,           \* position: "init", "idle", a stage of doChecks, or "dead"
  i,            \* index of the next probe / event check / resource check
  firstRun,     \* argument firstRun of the running doChecks
  systemStats,  \* argument systemStats of the running doChecks
  os,           \* self.os
  res,          \* the locals apacheStatus .. cassandraData, by probe
  checksData,   \* the payload: [top, events, resources]
  hasHost,      \* 'internalHostname' was set in checksData
  hasResource,  \* local has_resource
  emitted,      \* the emitter was called with checksData in this cycle
  queue,        \* events pending in the scheduler sc
  now,          \* the clock
  startTime,    \* time at which the running cycle started
  running,      \* number of doChecks calls in flight
  cycles,       \* number of doChecks calls so far
  odd,          \* unusual environment answers so far
  exc,          \* the exception that left doChecks, "none" if none
  excAt,        \* where it was raised
  hasPluginDir, \* 'pluginDirectory' in agentConfig
  plugins,      \* self.plugins: [none, objs]
  pluginOutput, \* names in the mapping getPlugins returned in this cycle
  pluginRan,    \* names of the plugins whose run() the last getPlugins call invoked
  ctorFailed,   \* files whose class could not be constructed
  dirSeen,      \* what the last getPlugins call found of its directory
  built,        \* per imported class, the signature its instance was built with
  calls,        \* number of getPlugins calls
  loads,        \* number of getPlugins calls that ran the load block
  imported,     \* per file, number of imp.load_source calls
  loadCut,      \* an exception left the load block
  unloaded,     \* eligible files the load block never imported
  evres,        \* result of each event check in this cycle
  rres,         \* what each resource check popped in this cycle
  rsnap,        \* the resource probe's unread snapshot, <<>> if none
  rversion,     \* the resource probe's format version
  rdescribed,   \* the versions whose description was already handed out
  lastPop,      \* timestamp of the last snapshot pop_snapshot() returned
  readTwice,    \* pop_snapshot() returned a snapshot it had returned before
  announced,    \* the versions whose description a delivered payload carried
  startups,     \* delivered payloads with the startup event or systemStats
  prevData      \* optional probes that returned data in the previous cycle

vars ==
  << pc, i, firstRun, systemStats, os, res, checksData, hasHost, hasResource,
     emitted, queue, now, startTime, running, cycles, odd, exc, excAt,
     hasPluginDir, plugins, pluginOutput, pluginRan, ctorFailed, dirSeen, built,
     calls, loads, imported, loadCut, unloaded, evres, rres, rsnap, rversion, rdescribed, lastPop, readTwice,
     announced, startups, prevData >>

cycleVars == << firstRun, systemStats, os, startTime, cycles, prevData >>
pluginVars ==
  << plugins, pluginOutput, pluginRan, ctorFailed, dirSeen, built, calls,
     loads, imported, loadCut, unloaded >>
resourceVars == << rsnap, rversion, rdescribed, lastPop, readTwice >>
deliveryVars == << announced, startups >>
schedVars == << queue, now >>

(* ------------------------------ helpers -------------------------------- *)

EmptyMap == [k \in {} |-> "None"]

Put(f, k, v) == [x \in DOMAIN f \cup {k} |-> IF x = k THEN v ELSE f[x]]

NoResults == [p \in ProbeSet |-> "Unset"]
NoEvents == [e \in { EventChecks[n] : n \in 1..Len(EventChecks) } |-> "Unset"]
NoResources == [e \in { ResourcesChecks[n] : n \in 1..Len(ResourcesChecks) } |-> "Unset"]
NoPayload == [top |-> EmptyMap, events |-> EmptyMap, resources |-> EmptyMap]

\* The answer a probe gives on a host where everything is in order and no
\* optional service is installed.
Usual(p) ==
  IF p \in CoreProbes THEN "Data"
  ELSE IF p = "datadog" THEN "Empty"
  ELSE "False"

\* Every answer a probe can give.
Outcomes(p) ==
  CASE p \in CoreProbes -> { "Data", "False", "Raise" }
    [] p = "mysql" -> { "False", "None", "Data", "DataNoSBM", "Raise" }
    [] p = "datadog" -> { "Empty", "Data", "Raise" }
    [] OTHER -> { "False", "None", "Data", "Raise" }

Cost(answer, usual) == IF answer = usual THEN 0 ELSE 1

\* v[key] succeeds.
Subscriptable(v) == v \in { "Data", "DataNoSBM" }

(* ----------------------- payload assembly (pure) ------------------------ *)

\* Keys of checksData that are written unconditionally (lines 327-346);
\* 'events' and 'resources' are kept in checksData.events / .resources.
CoreKeys ==
  { "collection_timestamp", "os", "agentKey", "agentVersion", "diskUsage",
    "loadAvrg1", "loadAvrg5", "loadAvrg15", "memPhysUsed", "memPhysFree",
    "memSwapUsed", "memSwapFree", "memCached", "networkTraffic", "processes",
    "apiKey" }

\* Keys of the mapping the CPU probe returns, merged by checksData.update.
CpuKeys == { "cpuUser", "cpuSystem", "cpuIdle" }

MysqlKeys ==
  { "mysqlConnections", "mysqlCreatedTmpDiskTables", "mysqlMaxUsedConnections",
    "mysqlOpenFiles", "mysqlSlowQueries", "mysqlTableLocksWaited",
    "mysqlThreadsConnected" }

\* Every key an optional probe can contribute to the payload.
AllKeys(p) ==
  CASE p = "apache" -> { "apacheReqPerSec", "apacheBusyWorkers", "apacheIdleWorkers" }
    [] p = "mysql" -> MysqlKeys \cup { "mysqlSecondsBehindMaster" }
    [] p = "nginx" -> { "nginxConnections", "nginxReqPerSec" }
    [] p = "rabbitmq" -> { "rabbitMQ" }
    [] p = "mongodb" -> { "mongoDB" }
    [] p = "couchdb" -> { "couchDB" }
    [] p = "plugins" -> { "plugins" }
    [] p = "io" -> { "ioStats" }
    [] p = "cpu" -> CpuKeys
    [] p = "ganglia" -> { "ganglia" }
    [] p = "datadog" -> { "datadog" }
    [] p = "cassandra" -> { "cassandra" }
    [] OTHER -> {}

\* Probes tested with "is not False and is not None" (lines 348-358).
StrictTested == { "cpu", "ganglia", "datadog", "cassandra" }

\* Probes whose result is subscripted once the test passed (lines 363-387).
Subscripted == { "apache", "mysql", "nginx" }

\* The presence test doChecks applies to the result v of optional probe p.
Included(p, v) ==
  IF p \in StrictTested THEN v # "False" /\ v # "None" ELSE v # "False"

\* The keys doChecks writes for optional probe p with result v.
KeysFor(p, v) ==
  IF ~Included(p, v) THEN {}
  ELSE IF p = "mysql"
    THEN MysqlKeys \cup (IF v = "Data" THEN { "mysqlSecondsBehindMaster" } ELSE {})
  ELSE AllKeys(p)

\* Building the payload raises (a subscript on a value that has none).
BuildRaises(r) ==
  \/ ~Subscriptable(r["load"])
  \/ ~Subscriptable(r["memory"])
  \/ \E p \in Subscripted : Included(p, r[p]) /\ ~Subscriptable(r[p])

\* Mutant of FirstRunKeys: systemStats written on every run.
FirstRunKeysAlways(fr) == { "systemStats" }

\* systemStats is written iff firstRun == True (line 409).
FirstRunKeys(fr) == IF fr = TRUE THEN { "systemStats" } ELSE {}

ProbeOfKey(k) == CHOOSE p \in OptionalProbes : k \in AllKeys(p)

\* The value stored under top-level key k.
ValueAt(k, r, osv, ss) ==
  CASE k = "os" -> osv
    [] k = "diskUsage" -> r["disk"]
    [] k = "networkTraffic" -> r["network"]
    [] k = "processes" -> r["processes"]
    [] k = "systemStats" -> ss
    [] k \in CoreKeys -> k
    [] k \in AllKeys("rabbitmq") \cup AllKeys("mongodb") \cup AllKeys("couchdb")
             \cup AllKeys("plugins") \cup AllKeys("io") \cup AllKeys("ganglia")
             \cup AllKeys("datadog") \cup AllKeys("cassandra") -> r[ProbeOfKey(k)]
    [] OTHER -> "Data"

\* Mutant of BuildTop: the process list is left out of the payload.
BuildTopNoProcesses(r, osv, fr, ss) ==
  LET keys == (CoreKeys \ { "processes" })
                \cup UNION { KeysFor(p, r[p]) : p \in OptionalProbes }
                \cup FirstRunKeys(fr)
  IN [k \in keys |-> ValueAt(k, r, osv, ss)]

\* checksData after lines 327-411, when nothing raised.
BuildTop(r, osv, fr, ss) ==
  LET keys == CoreKeys \cup UNION { KeysFor(p, r[p]) : p \in OptionalProbes }
                \cup FirstRunKeys(fr)
  IN [k \in keys |-> ValueAt(k, r, osv, ss)]

(* --------------------------- plugin loader (pure) ----------------------- *)

\* name = name.split('.', 1); name[1] == 'py' (IndexError when no dot).
Eligible(f) == f.ext = "py"

\* "except TypeError" (lines 247 and 251) catches every TypeError, whatever
\* raised it.
CaughtAsTypeError(x) == x \in { "TypeError", "BodyTypeError" }

\* The signature with which the instance is built, "none" if construction
\* failed (lines 241-261): TypeError falls through to the next signature,
\* any other exception is caught by the outer handler.
Construct(cls) ==
  IF cls.a3 = "ok" THEN "a3"
  ELSE IF ~CaughtAsTypeError(cls.a3) THEN "none"
  ELSE IF cls.a2 = "ok" THEN "a2"
  ELSE IF ~CaughtAsTypeError(cls.a2) THEN "none"
  ELSE IF cls.a0 = "ok" THEN "a0"
  ELSE "none"

\* Indices of the eligible files, in directory order (lines 213-229).
RECURSIVE Scan(_, _)
Scan(listing, n) ==
  IF n > Len(listing) THEN << >>
  ELSE IF Eligible(listing[n]) THEN << n >> \o Scan(listing, n + 1)
  ELSE Scan(listing, n + 1)

\* The import-and-construct loop (lines 232-261) over the indices todo.
\* imp.load_source is outside the try block: when it raises the loop ends
\* and the exception leaves getPlugins.
RECURSIVE LoadFrom(_, _, _, _)
LoadFrom(listing, todo, objs, tried) ==
  IF todo = << >> THEN [objs |-> objs, tried |-> tried, raised |-> FALSE]
  ELSE
    LET n == Head(todo)
        f == listing[n]
        sig == Construct(f.cls)
    IN IF f.imp = "raise"
         THEN [objs |-> objs, tried |-> tried \cup {FileBases[n]}, raised |-> TRUE]
         ELSE LoadFrom(listing, Tail(todo),
                       IF sig # "none"
                         THEN Append(objs, [name |-> FileBases[n], sig |-> sig])
                         ELSE objs,
                       tried \cup {FileBases[n]})

\* Mutant of NeedLoad: the cache is not consulted.
AlwaysLoad(p) == TRUE

\* "if self.plugins == None" (line 204).
NeedLoad(p) == p.none

\* Mutant of RunPlugins: the last plugin is left out.
RunPluginsButLast(objs, bad) ==
  [ ran |-> [n \in 1..(Len(objs) - 1) |-> objs[n].name],
    raised |-> FALSE,
    output |-> { objs[n].name : n \in 1..(Len(objs) - 1) } ]

\* The run loop of lines 264-280: output[class name] = plugin.run() for each
\* instance in turn; an exception raised by run() leaves the loop.
\* bad is the index of the first plugin whose run() raises, 0 if none does.
RunPlugins(objs, bad) ==
  LET raises == bad \in 1..Len(objs)
      last == IF raises THEN bad ELSE Len(objs)
  IN [ ran |-> [n \in 1..last |-> objs[n].name],
       raised |-> raises,
       output |-> IF raises THEN {} ELSE { objs[n].name : n \in 1..Len(objs) } ]

\* getPlugins after the directory tests passed (lines 202-285).
LoadAndRun(p, listing, bad) ==
  LET ld == IF NeedLoad(p)
              THEN LoadFrom(listing, Scan(listing, 1), << >>, {})
              ELSE [objs |-> p.objs, tried |-> {}, raised |-> FALSE]
      objs == ld.objs
      run == IF ld.raised
               THEN [ran |-> << >>, raised |-> FALSE, output |-> {}]
               ELSE RunPlugins(objs, bad)
  IN [ plugins |-> [none |-> FALSE, objs |-> objs],
       loaded |-> NeedLoad(p),
       tried |-> ld.tried,
       eligible |-> IF NeedLoad(p)
                      THEN { FileBases[n] : n \in { m \in DOMAIN listing : Eligible(listing[m]) } }
                      ELSE {},
       failed |-> { FileBases[n] : n \in { m \in DOMAIN listing :
                      /\ FileBases[m] \in ld.tried
                      /\ listing[m].imp # "raise"
                      /\ Construct(listing[m].cls) = "none" } },
       built |-> { [cls |-> listing[m].cls, sig |-> Construct(listing[m].cls)] :
                     m \in { n \in DOMAIN listing :
                               FileBases[n] \in ld.tried /\ listing[n].imp # "raise" } },
       raised |-> IF ld.raised THEN "import" ELSE IF run.raised THEN "run" ELSE "none",
       ran |-> run.ran,
       output |-> run.output ]

(* ------------------------------- Init ---------------------------------- *)

Init ==
  /\ pc = "init"
  /\ i = 1
  /\ firstRun = FALSE
  /\ systemStats = "False"
  /\ os = "None"
  /\ res = NoResults
  /\ checksData = NoPayload
  /\ hasHost = FALSE
  /\ hasResource = FALSE
  /\ emitted = FALSE
  /\ queue = << >>
  /\ now = 0
  /\ startTime = 0
  /\ running = 0
  /\ cycles = 0
  /\ odd = 0
  /\ exc = "none"
  /\ excAt = "none"
  /\ hasPluginDir \in BOOLEAN
  /\ plugins = [none |-> TRUE, objs |-> << >>]
  /\ pluginOutput = {}
  /\ pluginRan = << >>
  /\ ctorFailed = {}
  /\ dirSeen = "none"
  /\ built = {}
  /\ calls = 0
  /\ loads = 0
  /\ imported = [n \in 1..Len(FileBases) |-> 0]
  /\ loadCut = FALSE
  /\ unloaded = {}
  /\ evres = NoEvents
  /\ rres = NoResources
  /\ rsnap = << >>
  /\ rversion = 1
  /\ rdescribed = {}
  /\ lastPop = 0
  /\ readTwice = FALSE
  /\ announced = {}
  /\ startups = 0
  /\ prevData = {}

(* ------------------------- scheduler and entry -------------------------- *)

\* self.os after lines 292-302 on platform p (mac_ver() is a non-empty tuple).
OsFamily(p) ==
  IF p = "darwin" THEN "mac"
  ELSE IF p = "freebsd8" THEN "freebsd"
  ELSE "linux"

Max(a, b) == IF a >= b THEN a ELSE b

\* sc.enter(delay, 1, self.doChecks, (sc, fr)) at time t: the event is queued
\* for t + delay, behind the events that are due no later.
RECURSIVE Insert(_, _)
Insert(q, ev) ==
  IF q = << >> THEN << ev >>
  ELSE IF Head(q).time <= ev.time THEN << Head(q) >> \o Insert(Tail(q), ev)
  ELSE << ev >> \o q

SchedEnter(q, t, delay, fr) == Insert(q, [time |-> t + delay, firstRun |-> fr])

\* Mutant of ReArm: the next cycle is queued twice.
ReArmTwice(q, t) ==
  SchedEnter(SchedEnter(q, t, CheckFreq, FALSE), t, CheckFreq, FALSE)

\* Mutant of ReArm: the next cycle is queued as a first run.
ReArmFirstRun(q, t) == SchedEnter(q, t, CheckFreq, TRUE)

\* The re-arm of line 470.
ReArm(q, t) == SchedEnter(q, t, CheckFreq, FALSE)

\* An exception leaves doChecks: the call is over, nothing after the raising
\* statement runs, and the caller (the first call, or sc.run()) sees it.
Die(kind, at) ==
  /\ pc' = "dead"
  /\ exc' = kind
  /\ excAt' = at
  /\ running' = running - 1

Alive == UNCHANGED << exc, excAt, running >>

\* Entry of doChecks(sc, fr, ss) at time t (lines 291-304).
Enter(fr, ss, t) ==
  /\ pc' = "probe"
  /\ i' = 1
  /\ firstRun' = fr
  /\ systemStats' = ss
  /\ \E p \in Platforms :
       /\ odd + Cost(p, "linux2") <= MaxOdd
       /\ odd' = odd + Cost(p, "linux2")
       /\ os' = (IF os = "None" THEN OsFamily(p) ELSE os)
       /\ os # "None" => p = "linux2"
  /\ res' = NoResults
  /\ checksData' = NoPayload
  /\ hasHost' = FALSE
  /\ hasResource' = FALSE
  /\ emitted' = FALSE
  /\ evres' = NoEvents
  /\ rres' = NoResources
  /\ pluginOutput' = {}
  /\ pluginRan' = << >>
  /\ dirSeen' = "none"
  /\ startTime' = t
  /\ now' = t
  /\ running' = running + 1
  /\ cycles' = cycles + 1
  /\ prevData' = { p \in OptionalProbes : res[p] \in { "Data", "DataNoSBM" } }
  /\ UNCHANGED << exc, excAt, hasPluginDir, plugins, ctorFailed, built, calls,
                  loads, imported, loadCut, unloaded, resourceVars,
                  deliveryVars >>

\* The agent's first call, doChecks(sc, firstRun, systemStats).
FirstCall ==
  /\ pc = "init"
  /\ \E fr \in BOOLEAN, ss \in SystemFacts \cup { "False" } : Enter(fr, ss, now)
  /\ UNCHANGED queue

\* sc.run(): the earliest event is taken once it is due and its action called.
SchedRun ==
  /\ pc = "idle"
  /\ queue # << >>
  /\ cycles < MaxCycles
  /\ Enter(Head(queue).firstRun, "False", Max(now, Head(queue).time))
  /\ queue' = Tail(queue)

(* ------------------------------ the probes ------------------------------ *)

\* The probes called from position n up to the next getPlugins call or the
\* end of the list.
RECURSIVE Stretch(_)
Stretch(n) ==
  IF n > Len(Probes) \/ Probes[n] = "plugins" THEN << >>
  ELSE << Probes[n] >> \o Stretch(n + 1)

\* The answers the probes ps can give one after the other with at most k
\* unusual ones; the sequence ends with the first call that raises.
RECURSIVE Answers(_, _)
Answers(ps, k) ==
  IF ps = << >> THEN { << >> }
  ELSE UNION {
         IF v = "Raise" THEN { << v >> }
         ELSE { << v >> \o w : w \in Answers(Tail(ps), k - Cost(v, Usual(Head(ps)))) } :
         v \in { o \in Outcomes(Head(ps)) : Cost(o, Usual(Head(ps))) <= k } }

OddIn(ps, ans) ==
  Cardinality({ n \in 1..Len(ans) : ans[n] # Usual(ps[n]) })

\* The locals after the calls ps answered ans: a call that raised assigns
\* nothing and the calls after it are not made.
Assign(r, ps, ans) ==
  [p \in DOMAIN r |->
     IF \E n \in 1..Len(ans) : ps[n] = p
       THEN ans[CHOOSE n \in 1..Len(ans) : ps[n] = p]
       ELSE r[p]]

Raised(ans) == ans # << >> /\ ans[Len(ans)] = "Raise"

AfterProbes(n) ==
  /\ i' = n
  /\ pc' = IF n > Len(Probes) THEN "build" ELSE "probe"

\* The calls of lines 307-323 other than getPlugins, in order, up to the
\* first one that raises.
CallProbes ==
  /\ pc = "probe"
  /\ Probes[i] # "plugins"
  /\ LET ps == Stretch(i)
     IN \E ans \in Answers(ps, MaxOdd - odd) :
          /\ odd' = odd + OddIn(ps, ans)
          /\ res' = Assign(res, ps, ans)
          /\ IF Raised(ans)
               THEN Die("ProbeFailure", ps[Len(ans)]) /\ UNCHANGED i
               ELSE AfterProbes(i + Len(ps)) /\ Alive
  /\ UNCHANGED << cycleVars, checksData, hasHost, hasResource, emitted,
                  schedVars, hasPluginDir, pluginVars, evres, rres, resourceVars,
                  deliveryVars >>

AllUsual == [n \in 1..Len(FileBases) |-> UsualFile]

\* The directories the walk can find: up to Len(FileBases) files.
Listings == UNION { [1..k -> FileKinds] : k \in 0..Len(FileBases) }

ListingCost(listing) ==
  (IF Len(listing) < Len(FileBases) THEN 1 ELSE 0)
  + Cardinality({ n \in DOMAIN listing : listing[n] # UsualFile })

\* Mutant of DirectoryMissing: the directory is not tested for existence.
DirectoryUnconfigured(hasDir, exists) == ~hasDir

\* The tests of lines 195-200: no 'pluginDirectory' in agentConfig, or
\* os.path.exists() of it is False.
DirectoryMissing(hasDir, exists) == ~hasDir \/ ~exists

\* getPlugins (lines 192-285): the directory tests, then load and run.
GetPlugins(hasDir, exists, p, listing, bad) ==
  LET dir == IF ~hasDir THEN "unconfigured"
             ELSE IF exists THEN "present" ELSE "absent"
  IN IF DirectoryMissing(hasDir, exists)
       THEN [ plugins |-> p, loaded |-> FALSE, tried |-> {}, eligible |-> {},
              failed |-> {}, built |-> {}, raised |-> "none", ran |-> << >>,
              output |-> {}, ret |-> "False", dir |-> dir ]
       ELSE LET r == LoadAndRun(p, listing, bad)
            IN [ plugins |-> r.plugins, loaded |-> r.loaded, tried |-> r.tried,
                 eligible |-> r.eligible, failed |-> r.failed, built |-> r.built,
                 raised |-> r.raised,
                 ran |-> r.ran, output |-> r.output,
                 ret |-> IF r.raised # "none" THEN "Raise"
                         ELSE IF r.output = {} THEN "Empty" ELSE "Data",
                 dir |-> dir ]

\* The answers of the environment to one getPlugins call: whether the
\* directory exists, what it holds when it is read (only the load block reads
\* it), and which plugin's run() raises.
PluginAnswers(hasDir, p) ==
  IF ~hasDir THEN { [exists |-> TRUE, listing |-> AllUsual, bad |-> 0] }
  ELSE { [exists |-> FALSE, listing |-> AllUsual, bad |-> 0] }
       \cup [ exists : { TRUE },
              listing : IF NeedLoad(p) THEN Listings
                        ELSE { AllUsual },
              bad : 0..Len(FileBases) ]

AnswerCost(a) == Cost(a.exists, TRUE) + ListingCost(a.listing) + Cost(a.bad, 0)

\* The effect of one getPlugins call with result r on the loader's state.
PluginsCalled(r) ==
  /\ plugins' = r.plugins
  /\ calls' = calls + 1
  /\ loads' = loads + (IF r.loaded THEN 1 ELSE 0)
  /\ imported' = [n \in DOMAIN imported |->
                    imported[n] + (IF FileBases[n] \in r.tried THEN 1 ELSE 0)]
  /\ loadCut' = (loadCut \/ r.raised = "import")
  /\ unloaded' = IF r.loaded THEN r.eligible \ r.tried ELSE unloaded
  /\ pluginOutput' = r.output
  /\ pluginRan' = r.ran
  /\ ctorFailed' = ctorFailed \cup r.failed
  /\ dirSeen' = r.dir
  /\ built' = built \cup r.built
  /\ res' = [res EXCEPT !["plugins"] = r.ret]

\* plugins = self.getPlugins() (line 318).
CallGetPlugins ==
  /\ pc = "probe"
  /\ Probes[i] = "plugins"
  /\ \E a \in PluginAnswers(hasPluginDir, plugins) :
       LET r == GetPlugins(hasPluginDir, a.exists, plugins, a.listing, a.bad)
       IN /\ a.bad <= Len(r.plugins.objs)
          /\ odd + AnswerCost(a) <= MaxOdd
          /\ odd' = odd + AnswerCost(a)
          /\ PluginsCalled(r)
          /\ IF r.raised # "none"
               THEN Die(r.raised, "plugins") /\ UNCHANGED i
               ELSE AfterProbes(i + 1) /\ Alive
  /\ UNCHANGED << cycleVars, checksData, hasHost, hasResource, emitted,
                  schedVars, hasPluginDir, evres, rres, resourceVars,
                  deliveryVars >>

\* getPlugins called on its own, outside a cycle: the caller sees the
\* exception, if any, and may call again.
DirectGetPlugins ==
  /\ pc = "init"
  /\ calls < MaxCycles
  /\ \E a \in PluginAnswers(hasPluginDir, plugins) :
       LET r == GetPlugins(hasPluginDir, a.exists, plugins, a.listing, a.bad)
       IN /\ a.bad <= Len(r.plugins.objs)
          /\ PluginsCalled(r)
          /\ exc' = r.raised
          /\ excAt' = IF r.raised # "none" THEN "plugins" ELSE "none"
  /\ UNCHANGED << pc, i, cycleVars, checksData, hasHost, hasResource, emitted,
                  schedVars, running, odd, hasPluginDir, evres, rres,
                  resourceVars, deliveryVars >>

(* ----------------------------- the payload ------------------------------ *)

\* Lines 325-411: the mandatory fields, the optional fields, systemStats.
Build ==
  /\ pc = "build"
  /\ IF BuildRaises(res)
       THEN Die("TypeError", "build") /\ UNCHANGED checksData
       ELSE /\ checksData' =
                 [NoPayload EXCEPT !.top = BuildTop(res, os, firstRun, systemStats)]
            /\ pc' = "hostname"
            /\ Alive
  /\ UNCHANGED << i, cycleVars, res, hasHost, hasResource, emitted, schedVars,
                  odd, hasPluginDir, pluginVars, evres, rres, resourceVars,
                  deliveryVars >>

\* Lines 413-431: socket.gethostname() (socket.error is caught) and the uuid.
Hostname ==
  /\ pc = "hostname"
  /\ \E ok \in BOOLEAN :
       /\ odd + Cost(ok, TRUE) <= MaxOdd
       /\ odd' = odd + Cost(ok, TRUE)
       /\ hasHost' = ok
       /\ checksData' =
            [checksData EXCEPT !.top =
               Put(IF ok THEN Put(@, "internalHostname", "host") ELSE @,
                   "uuid", "uuid")]
  /\ pc' = "events"
  /\ i' = 1
  /\ Alive
  /\ UNCHANGED << cycleVars, res, hasResource, emitted, schedVars,
                  hasPluginDir, pluginVars, evres, rres, resourceVars,
                  deliveryVars >>

\* One iteration of the loop of lines 434-437.
EventCheck ==
  /\ pc = "events"
  /\ \E v \in { "Empty", "Data", "Raise" } :
       /\ odd + Cost(v, "Empty") <= MaxOdd
       /\ odd' = odd + Cost(v, "Empty")
       /\ evres' = [evres EXCEPT ![EventChecks[i]] = v]
       /\ checksData' =
            IF v = "Data"
              THEN [checksData EXCEPT !.events = Put(@, EventChecks[i], "Data")]
              ELSE checksData
       /\ IF v = "Raise"
            THEN Die("ProbeFailure", EventChecks[i]) /\ UNCHANGED i
            ELSE /\ i' = IF i = Len(EventChecks) THEN 1 ELSE i + 1
                 /\ pc' = IF i = Len(EventChecks) THEN "resources" ELSE "events"
                 /\ Alive
  /\ UNCHANGED << cycleVars, res, hasHost, hasResource, emitted, schedVars,
                  hasPluginDir, pluginVars, rres, resourceVars,
                  deliveryVars >>

(* -------------------------- resource checks ----------------------------- *)

\* What check() of a resource probe does to its unread snapshot and format
\* version: nothing, a new sample, a new sample in a new format.
AfterCheck(a, snap, version, stamp) ==
  CASE a = "sample" -> [snap |-> << stamp, "Data" >>, version |-> version]
    [] a = "newformat" -> [snap |-> << stamp, "Data" >>, version |-> version + 1]
    [] OTHER -> [snap |-> snap, version |-> version]

\* pop_snapshot(): the unread snapshot is returned and cleared.
PopSnapshot(snap) == [ret |-> snap, left |-> << >>]

\* Mutant of CheckAndPop: the snapshot is read without being popped.
CheckAndPeek(a, snap, version, stamp) ==
  LET st == AfterCheck(a, snap, version, stamp)
  IN [snap |-> st.snap, left |-> st.snap, version |-> st.version]

\* Lines 442-443: resources_check.check(), then
\* snap = resources_check.pop_snapshot().
CheckAndPop(a, snap, version, stamp) ==
  LET st == AfterCheck(a, snap, version, stamp)
      pop == PopSnapshot(st.snap)
  IN [snap |-> pop.ret, left |-> pop.left, version |-> st.version]

\* describe_format_if_needed(): the description, once per format version.
DescribeFormatIfNeeded(version, described) ==
  IF version \in described THEN "None" ELSE "description"

\* res_value of lines 447-451.
ResValue(snap, version, fmt) ==
  IF fmt # "None"
    THEN [ts |-> snap[1], data |-> snap[2], format_version |-> version,
          format_description |-> fmt]
    ELSE [ts |-> snap[1], data |-> snap[2], format_version |-> version]

\* A resource probe has a new sample in some cycles and none in others, both
\* usual; a new format or an exception is unusual.
ResourceCost(a) == IF a \in { "idle", "sample" } THEN 0 ELSE 1

\* One iteration of the loop of lines 441-452.
ResourceCheck ==
  /\ pc = "resources"
  /\ \E a \in { "idle", "sample", "newformat", "raise" } :
       LET st == CheckAndPop(a, rsnap, rversion, cycles)
           snap == st.snap
           fmt == DescribeFormatIfNeeded(st.version, rdescribed)
       IN /\ odd + ResourceCost(a) <= MaxOdd
          /\ odd' = odd + ResourceCost(a)
          /\ IF a = "raise"
               THEN /\ Die("ProbeFailure", "resources")
                    /\ rres' = [rres EXCEPT ![ResourcesChecks[i]] = "Raise"]
                    /\ UNCHANGED << i, checksData, hasResource, resourceVars,
                                    deliveryVars >>
               ELSE /\ rres' = [rres EXCEPT ![ResourcesChecks[i]] =
                                      IF snap # << >> THEN "Data" ELSE "Empty"]
                    /\ rversion' = st.version
                    /\ rsnap' = st.left
                    /\ lastPop' = IF snap # << >> THEN snap[1] ELSE lastPop
                    /\ readTwice' = (readTwice \/ (snap # << >> /\ snap[1] <= lastPop))
                    /\ UNCHANGED deliveryVars
                    /\ rdescribed' = IF snap # << >> THEN rdescribed \cup { st.version }
                                     ELSE rdescribed
                    /\ hasResource' = (hasResource \/ snap # << >>)
                    /\ checksData' =
                         IF snap # << >>
                           THEN [checksData EXCEPT !.resources =
                                   Put(@, ResourcesChecks[i], ResValue(snap, st.version, fmt))]
                           ELSE checksData
                    /\ i' = IF i = Len(ResourcesChecks) THEN 1 ELSE i + 1
                    /\ pc' = IF i = Len(ResourcesChecks) THEN "meta" ELSE "resources"
                    /\ Alive
  /\ UNCHANGED << cycleVars, res, hasHost, emitted, schedVars, hasPluginDir,
                  pluginVars, evres >>

\* The value of events['System'] (lines 462-466): a list of one record.
StartupEvent == << "agent startup" >>

\* Lines 454-466 read checksData['internalHostname'].
MetaRaises(hasRes, fr, host) == (hasRes \/ fr) /\ ~host

\* Lines 454-466: resources['meta'] and the startup event.
Meta ==
  /\ pc = "meta"
  /\ IF MetaRaises(hasResource, firstRun, hasHost)
       THEN Die("KeyError", "meta") /\ UNCHANGED checksData
       ELSE /\ checksData' =
                 [checksData EXCEPT
                    !.resources = IF hasResource
                                    THEN Put(@, "meta", [api_key |-> "apiKey", host |-> "host"])
                                    ELSE @,
                    !.events = IF firstRun
                                 THEN Put(@, "System", StartupEvent)
                                 ELSE @]
            /\ pc' = "emit"
            /\ Alive
  /\ UNCHANGED << i, cycleVars, res, hasHost, hasResource, emitted, schedVars,
                  odd, hasPluginDir, pluginVars, evres, rres, resourceVars,
                  deliveryVars >>

(* ------------------------- delivery and re-arm -------------------------- *)

\* The format versions whose description the payload carries.
Describes(data) ==
  { data.resources[r].format_version :
      r \in { k \in DOMAIN data.resources \ { "meta" } :
                "format_description" \in DOMAIN data.resources[k] } }

\* The payload has the startup event of lines 461-466 or the systemStats of
\* line 410.
CarriesStartup(data) ==
  "System" \in DOMAIN data.events \/ "systemStats" \in DOMAIN data.top

\* Line 468: self.emitter(checksData, ...); the emitter returns or raises.
Emit ==
  /\ pc = "emit"
  /\ emitted' = TRUE
  /\ \E ok \in BOOLEAN :
       /\ odd + Cost(ok, TRUE) <= MaxOdd
       /\ odd' = odd + Cost(ok, TRUE)
       /\ IF ok THEN /\ pc' = "rearm"
                     /\ announced' = announced \cup Describes(checksData)
                     /\ startups' = startups + (IF CarriesStartup(checksData) THEN 1 ELSE 0)
                     /\ Alive
                ELSE Die("DeliveryFailure", "emit") /\ UNCHANGED deliveryVars
  /\ UNCHANGED << i, cycleVars, res, checksData, hasHost, hasResource,
                  schedVars, hasPluginDir, pluginVars, evres, rres,
                  resourceVars >>

\* Line 470: the cycle has taken d seconds when sc.enter() is called; the
\* next cycle is queued checkFreq after that moment, and doChecks returns.
\* A cycle that takes no time is the usual case.
Rearm ==
  /\ pc = "rearm"
  /\ \E d \in 0..MaxDur :
       /\ odd + Cost(d, 0) <= MaxOdd
       /\ odd' = odd + Cost(d, 0)
       /\ now' = now + d
       /\ queue' = ReArm(queue, now + d)
  /\ pc' = "idle"
  /\ running' = running - 1
  /\ UNCHANGED << i, cycleVars, res, checksData, hasHost, hasResource,
                  emitted, exc, excAt, hasPluginDir, pluginVars, evres,
                  rres, resourceVars, deliveryVars >>

Next ==
  \/ FirstCall
  \/ SchedRun
  \/ CallProbes
  \/ CallGetPlugins
  \/ Build
  \/ Hostname
  \/ EventCheck
  \/ ResourceCheck
  \/ Meta
  \/ Emit
  \/ Rearm

Spec == Init /\ [][Next]_vars

\* The plugin loader alone: a sequence of getPlugins calls on one object.
NextPlugins == DirectGetPlugins

SpecPlugins == Init /\ [][NextPlugins]_vars

(* ------------------------------ properties ------------------------------ *)

\* A doChecks call has ended, by returning or by an exception.
CycleOver == pc \in { "idle", "dead" }

TopKeys == DOMAIN checksData.top
EventKeys == DOMAIN checksData.events
ResourceKeys == DOMAIN checksData.resources

IdentityKeys == { "internalHostname", "uuid" }

\* Top-level keys that are neither core fields, identity nor systemStats.
OptionalKeys == TopKeys \ (CoreKeys \cup IdentityKeys \cup { "systemStats" })

\* The probe answered with a mapping.
ReturnedData(v) == v \in { "Data", "DataNoSBM", "Empty" }

\* The keys of the optional probes that answered with a mapping.
SucceededKeys ==
  UNION { IF ReturnedData(res[p]) THEN KeysFor(p, res[p]) ELSE {} : p \in OptionalProbes }

SomeRaised ==
  \/ \E p \in ProbeSet : res[p] = "Raise"
  \/ \E e \in DOMAIN evres : evres[e] = "Raise"
  \/ \E r \in DOMAIN rres : rres[r] = "Raise"

AllInvoked ==
  /\ \A p \in ProbeSet : res[p] # "Unset"
  /\ \A e \in DOMAIN evres : evres[e] # "Unset"
  /\ \A r \in DOMAIN rres : rres[r] # "Unset"

\* C1: failure isolation. When probes raised in a cycle, the cycle still
\* completes: every probe was invoked, the payload was handed to the emitter,
\* and it holds the core fields plus exactly the keys of the probes that
\* succeeded.
C1_FailureIsolation ==
  (CycleOver /\ SomeRaised) =>
    /\ AllInvoked
    /\ emitted
    /\ CoreKeys \subseteq TopKeys
    /\ OptionalKeys = SucceededKeys
    /\ EventKeys \ { "System" } = { e \in DOMAIN evres : evres[e] = "Data" }
    /\ ResourceKeys \ { "meta" } = { r \in DOMAIN rres : rres[r] = "Data" }

\* C2: re-arm despite delivery failure. Once a cycle that reached the delivery
\* step is over, the next cycle is in the scheduler queue, whether the emitter
\* returned or raised.
C2_RearmDespiteDeliveryFailure ==
  (CycleOver /\ emitted) => queue # << >>

\* C3: no overlap and no pile-up. At most one doChecks call is executing and
\* at most one next-cycle event is pending, whatever the cycles' durations.
C3_NoOverlapNoPileUp ==
  /\ running <= 1
  /\ Len(queue) <= 1

\* A second cycle is executing after a first one that took longer than
\* checkFreq.
C3_Witness ==
  /\ cycles = 2
  /\ running = 1
  /\ startTime > 2 * CheckFreq

\* C4: loop liveness. No exception leaves doChecks, and every cycle that is
\* over has its successor queued.
C4_LoopLiveness ==
  CycleOver => (exc = "none" /\ pc # "dead" /\ queue # << >>)

\* The fields the claim C5 lists.
RequiredKeys == (CoreKeys \ { "agentVersion" }) \cup IdentityKeys

\* C5 as stated: every payload handed to the emitter contains all the
\* required fields, the hostname among them.
C5_RequiredFieldsWithHostname ==
  emitted => RequiredKeys \subseteq TopKeys

\* C5, amended: every payload handed to the emitter contains all the required
\* fields other than the hostname, and the hostname whenever
\* socket.gethostname() succeeded in that cycle.
C5_RequiredFields ==
  emitted =>
    /\ (RequiredKeys \ { "internalHostname" }) \subseteq TopKeys
    /\ ("internalHostname" \in TopKeys) = hasHost

\* A payload was delivered in a cycle whose hostname lookup failed.
C5_Witness == emitted /\ ~hasHost /\ pc = "rearm"

\* The optional probes the claim C6 lists, with the event and resource probes.
ListedOptional == OptionalProbes \ { "datadog", "cpu" }

\* C6: no stale optional keys. A probe that returned data in the previous
\* cycle and returns Absent (None) in this one leaves none of its keys in this
\* cycle's payload, and the optional keys of each payload are exactly those
\* of the probes that returned data in the same cycle.
C6_NoStaleOptionalKeys ==
  emitted =>
    /\ \A p \in ListedOptional :
         (p \in prevData /\ res[p] = "None") => AllKeys(p) \cap TopKeys = {}
    /\ \A p \in ListedOptional :
         (AllKeys(p) \cap TopKeys # {}) = ReturnedData(res[p])
    /\ EventKeys \ { "System" } = { e \in DOMAIN evres : evres[e] = "Data" }
    /\ ResourceKeys \ { "meta" } = { r \in DOMAIN rres : rres[r] = "Data" }

\* The optional service probes the claim C7 lists.
ServiceProbes ==
  { "apache", "mysql", "nginx", "rabbitmq", "mongodb", "couchdb", "io", "cpu",
    "ganglia", "cassandra" }

\* The cycle ended in the payload assembly because of a None result alone.
AbortedByAbsent ==
  /\ pc = "dead"
  /\ excAt = "build"
  /\ \E p \in ServiceProbes :
       res[p] = "None" /\ ~BuildRaises([res EXCEPT ![p] = "False"])

\* C7: presence test. Once the payload is built, each optional service probe
\* has keys in it iff its result is neither None nor False; and a None result
\* never aborts the cycle.
C7_PresenceTest ==
  /\ TopKeys # {} =>
       \A p \in ServiceProbes :
         (AllKeys(p) \cap TopKeys # {}) = (res[p] # "None" /\ res[p] # "False")
  /\ ~AbortedByAbsent

\* C8: first-run content. A delivered payload of a call with firstRun true
\* has systemStats equal to the caller's facts and events['System'] holding
\* one startup record; with firstRun false it has neither.
C8_FirstRunContent ==
  emitted =>
    IF firstRun
      THEN /\ "systemStats" \in TopKeys
           /\ checksData.top["systemStats"] = systemStats
           /\ "System" \in EventKeys
           /\ Len(checksData.events["System"]) = 1
      ELSE /\ "systemStats" \notin TopKeys
           /\ "System" \notin EventKeys

\* A first-run payload carrying the caller's facts was delivered.
C8_Witness == emitted /\ firstRun /\ systemStats \in SystemFacts

\* C9: plugin discovery is memoized. Over any sequence of getPlugins calls the
\* load block runs in at most one call and no file is imported twice, also
\* after a load that an exception cut short.
C9_LoadOnce ==
  /\ loads <= 1
  /\ \A n \in DOMAIN imported : imported[n] <= 1

\* A later call returned normally after the load of an earlier call was cut
\* short by an exception.
C9_Witness ==
  /\ calls >= 2
  /\ loads = 1
  /\ loadCut
  /\ exc = "none"

\* C10: per-artifact load isolation. No exception leaves the load block, and
\* every eligible file is imported.
C10_LoadIsolation ==
  /\ ~loadCut
  /\ unloaded = {}
  /\ exc # "import"

\* The names of the cached plugin instances.
PluginNames == { plugins.objs[n].name : n \in 1..Len(plugins.objs) }

\* How many times the last getPlugins call invoked run() of the plugin name.
TimesRun(name) == Cardinality({ n \in 1..Len(pluginRan) : pluginRan[n] = name })

\* The last getPlugins call found its directory.
CalledWithDirectory == res["plugins"] \in { "Empty", "Data", "Raise" }

\* The last getPlugins call returned a mapping.
ReturnedMapping == res["plugins"] \in { "Empty", "Data" }

\* A file whose construction failed is not in the cache, not in the mapping,
\* never run and imported once only.
FailedNeverAppears ==
  \A n \in 1..Len(FileBases) :
    FileBases[n] \in ctorFailed =>
      /\ FileBases[n] \notin PluginNames
      /\ FileBases[n] \notin pluginOutput
      /\ TimesRun(FileBases[n]) = 0
      /\ imported[n] <= 1

C13_PluginsKeyOnlyNonEmpty ==
  TopKeys # {} =>
    /\ "plugins" \in TopKeys => (res["plugins"] = "Data" /\ pluginOutput # {})
    /\ res["plugins"] \in { "Empty", "False" } => "plugins" \notin TopKeys

\* The resource probes whose popped snapshot was non-empty in this cycle.
Contributed == { r \in DOMAIN rres : rres[r] = "Data" }

\* Every resource probe was checked and popped, and lines 454-458 are past.
ResourcesDone ==
  /\ \A r \in DOMAIN rres : rres[r] \in { "Data", "Empty" }
  /\ pc \in { "emit", "rearm", "idle", "dead" }

\* C14: resource aggregation. In every cycle resources[RESOURCE_KEY] exists
\* exactly for the resource probes whose popped snapshot was non-empty, and
\* resources['meta'] exists iff at least one of them contributed.
C14_ResourceAggregation ==
  ResourcesDone =>
    /\ ResourceKeys \ { "meta" } = Contributed
    /\ ("meta" \in ResourceKeys) = (Contributed # {})

\* socket.gethostname() raised socket.error in this cycle (line 430 was
\* reached, line 417 assigned nothing).
HostnameFailed == "uuid" \in TopKeys /\ ~hasHost

\* C15: hostname failure is non-fatal. After a failed hostname lookup the
\* hostname field is omitted, no exception leaves the cycle because of it,
\* and a cycle that ended handed its payload to the emitter and re-armed,
\* also on a first run and when a resource probe contributed.
C15_HostnameFailureNonFatal ==
  HostnameFailed =>
    /\ "internalHostname" \notin TopKeys
    /\ exc # "KeyError"
    /\ (CycleOver /\ ~SomeRaised) => (emitted /\ queue # << >>)

\* The payload of this cycle was handed to the emitter and the emitter
\* returned.
Delivered == emitted /\ ~(pc = "dead" /\ excAt = "emit")

\* C16: a resource snapshot is delivered at most once. pop_snapshot() never
\* returns a snapshot it returned before, no snapshot is left unread once the
\* resource loop of a cycle is over, and the snapshot in a payload handed to
\* the emitter is the one popped in that cycle after that cycle's check().
C16_SnapshotAtMostOnce ==
  /\ ~readTwice
  /\ pc # "resources" => rsnap = << >>
  /\ emitted =>
       \A r \in Contributed :
         /\ checksData.resources[r].ts = lastPop
         /\ checksData.resources[r].ts = cycles

\* The second cycle delivered a second snapshot, the first cycle having
\* popped one too.
C16_Witness ==
  /\ Delivered
  /\ cycles = 2
  /\ Contributed # {}
  /\ checksData.resources["processes"].ts = 2
  /\ 1 \in rdescribed
  /\ "format_description" \notin DOMAIN checksData.resources["processes"]

\* The resource entries of the payload.
ResourceEntries == ResourceKeys \ { "meta" }

\* C17: schema announcement. Every resource entry carries format_version;
\* once a cycle is over, the description of every format version observed
\* with a snapshot has been part of a delivered payload; and no payload
\* handed to the emitter carries the description of a version that an
\* earlier delivered payload carried.
C17_SchemaAnnouncement ==
  /\ \A r \in ResourceEntries : "format_version" \in DOMAIN checksData.resources[r]
  /\ CycleOver => rdescribed \subseteq announced
  /\ pc = "emit" => Describes(checksData) \cap announced = {}

\* C18: no cumulative drift. The first call starts at time 0, and the n-th
\* cycle after it starts n times checkFreq later, whatever the durations of
\* the cycles were.
C18_NoDrift ==
  cycles >= 1 => startTime = (cycles - 1) * CheckFreq

\* The class accepts a call with the arguments of signature sig: the call
\* does not fail for the number of its arguments.
Supports(cls, sig) == cls[sig] # "TypeError"

\* The signature the protocol of C19 keeps: the first one, in the order a3,
\* a2, a0, that the class supports, if the constructor succeeds with it;
\* no instance otherwise.
FirstSupported(cls) ==
  IF Supports(cls, "a3") THEN (IF cls.a3 = "ok" THEN "a3" ELSE "none")
  ELSE IF Supports(cls, "a2") THEN (IF cls.a2 = "ok" THEN "a2" ELSE "none")
  ELSE IF cls.a0 = "ok" THEN "a0"
  ELSE "none"

\* C19: constructor protocol. Every imported class is built with the first
\* of the signatures (config, logger, rawConfig), (config, logger), () that
\* it supports; a later signature is tried only after a failure for wrong
\* arity, never after a failure of the constructor body.
C19_ConstructorProtocol ==
  \A b \in built : b.sig = FirstSupported(b.cls)

\* C20: startup event at most once. Every cycle that doChecks schedules runs
\* with firstRun false and without system facts, so the startup event and
\* systemStats are in at most one delivered payload, that of the first call.
C20_StartupAtMostOnce ==
  /\ \A n \in 1..Len(queue) : queue[n].firstRun = FALSE
  /\ cycles >= 2 => (~firstRun /\ systemStats = "False")
  /\ CarriesStartup(checksData) => cycles = 1
  /\ startups <= 1

\* A later cycle delivered its payload, without startup event and
\* systemStats, after the payload of the first run had been delivered.
C20_Witness ==
  /\ cycles >= 2
  /\ Delivered
  /\ startups = 1
  /\ ~CarriesStartup(checksData)
====
